---------------------------- MODULE Spec2Model ----------------------------
(***************************************************************************)
(* Model of the quota-aware search-aggregation engine of BaseFinder        *)
(* (src/basefinder.py): the credential rotator (get_youtube_client and the *)
(* usage table API_KEY_QUOTA), the channel search client                   *)
(* (search_channel_videos, fetch_video_links, extract_links), the result   *)
(* cache (link_cache, get_cached_links, cleanup_cache, cache_links) and    *)
(* the aggregator (search_preloaded_channels).                             *)
(*                                                                         *)
(* Scheduling: the program runs on one asyncio event loop.  A coroutine    *)
(* runs without interruption up to an await that really suspends; the only *)
(* such await of the engine is the await of asyncio.gather at line 271.   *)
(* The provider calls (build, execute) are blocking calls, so each channel *)
(* task runs as one step.  A request is therefore three kinds of steps:    *)
(* Start (lines 250-271), one ChannelTask per channel (lines 260-268) and  *)
(* Finish (lines 273-280).  In Spec a call ends before the next one        *)
(* starts; in SpecOverlap the steps of two calls interleave.               *)
(*                                                                         *)
(* SpecCache, SpecExtract and SpecRotator call cache_links,                *)
(* fetch_video_links and get_youtube_client on their own, on inputs the    *)
(* runs of Spec do not reach: more queries than the cache has room for,    *)
(* descriptions of several links, usage up to QUOTA_LIMIT.                 *)
(***************************************************************************)
EXTENDS Integers, Sequences, FiniteSets, TLC

(***************************************************************************)
(* Program constants (src/basefinder.py lines 28-31).                      *)
(***************************************************************************)
QUOTA_LIMIT == 10000
CACHE_DURATION == 3600
MAX_CACHE_ENTRIES == 100
MAX_LINKS_PER_REQUEST == 3

(***************************************************************************)
(* Bounds of the model.                                                    *)
(***************************************************************************)
NumKeys == 2          \* len(API_KEYS)
MaxChannels == 2      \* lines of the largest channels.txt considered
MaxCalls == 2         \* calls of search_preloaded_channels in one run
ExtraTypes == 1       \* base_type strings beyond the capacity (cache runs)

Min(a, b) == IF a <= b THEN a ELSE b
Range(s) == {s[i] : i \in 1..Len(s)}

Keys == 0..(NumKeys - 1)
NoClient == -1
Reqs == {1, 2}        \* the records of the calls that may be in flight
OneAtATime == {1}


(***************************************************************************)
(* Link Extractor.  A description is a sequence of tokens; a token is a    *)
(* piece of text of the shape "...OpenLayout&id=<level>%3A<TYPE>%3A<id>".  *)
(* base_link_pattern (lines 60-62) matches a token only when its level is  *)
(* TH15, TH16 or TH17; findall returns the matches in text order.          *)
(***************************************************************************)
L(level, id) == [level |-> level, id |-> id]

base_link_pattern(tok) == tok.level \in {"TH15", "TH16", "TH17"}

\* line 58.
BASE_LEVELS == {"TH15", "TH16", "TH17"}

\* extract_links without the filter of lines 156-157: every match of the
\* pattern is returned.
extract_links_all(description, town_hall_level) ==
    SelectSeq(description, base_link_pattern)

\* lines 152-162; town_hall_level is always given by the callers modelled.
extract_links(description, town_hall_level) ==
    LET all_links == SelectSeq(description, base_link_pattern)
        pattern_encoded(link) == link.level = town_hall_level
    IN  SelectSeq(all_links, pattern_encoded)

(***************************************************************************)
(* Credential Rotator.  quota models API_KEY_QUOTA, indexed by the         *)
(* position of the key in API_KEYS.                                        *)
(***************************************************************************)
\* min(range(len(API_KEYS)), key=...) at lines 93-95: the first index of
\* least usage.
MinIndex(quota) ==
    CHOOSE i \in Keys :
        \A j \in Keys : quota[i] < quota[j] \/ (quota[i] = quota[j] /\ i <= j)


\* The loop of get_youtube_client (lines 89-122) from one iteration on:
\* the set of ways the call can end, for every answer build() can give.
\* client is the index of the key the returned client is built on,
\* raised tells that the call ended by re-raising (lines 116, 119),
\* marked collects the keys set to QUOTA_LIMIT at line 109.
RECURSIVE get_youtube_client_loop(_, _, _, _)
get_youtube_client_loop(quota, index, retries, marked) ==
    IF ~(retries < NumKeys)
    THEN {[quota |-> quota, index |-> index, client |-> NoClient,
           raised |-> FALSE, marked |-> marked]}
    ELSE LET i == MinIndex(quota)
         IN  {[quota |-> quota, index |-> i, client |-> i,
               raised |-> FALSE, marked |-> marked]}
             \cup
             {[quota |-> quota, index |-> i, client |-> NoClient,
               raised |-> TRUE, marked |-> marked]}
             \cup
             get_youtube_client_loop([quota EXCEPT ![i] = QUOTA_LIMIT],
                                     i, retries + 1, marked \cup {i})

get_youtube_client(quota, index) ==
    get_youtube_client_loop(quota, index, 0, {})

(***************************************************************************)
(* Result Cache.  link_cache is a dict: a sequence of entries in insertion *)
(* order (the order sorted() keeps among equal timestamps).                *)
(***************************************************************************)
\* line 205: f"{town_hall_level}_{base_type}".  The levels hold no "_", so
\* the text decides the pair and the pair stands for the text.
get_cache_key(town_hall_level, base_type) == <<town_hall_level, base_type>>

CacheKeys(cache) == {cache[i].key : i \in 1..Len(cache)}

CacheIndex(cache, key) ==
    IF key \in CacheKeys(cache)
    THEN CHOOSE i \in 1..Len(cache) : cache[i].key = key
    ELSE 0

\* get_cached_links without the test of line 215: an empty list is served.
get_cached_links_serves_empty(cache, town_hall_level, base_type, time) ==
    LET cache_key == get_cache_key(town_hall_level, base_type)
        i == CacheIndex(cache, cache_key)
    IN  IF i # 0 /\ time - cache[i].timestamp < CACHE_DURATION
        THEN [found |-> TRUE, links |-> cache[i].links]
        ELSE [found |-> FALSE, links |-> <<>>]

\* get_cached_links that never finds the entry: every call fetches again.
get_cached_links_never(cache, town_hall_level, base_type, time) ==
    [found |-> FALSE, links |-> <<>>]

\* get_cached_links with <= for < at line 213: an entry of age
\* CACHE_DURATION is served.
get_cached_links_le(cache, town_hall_level, base_type, time) ==
    LET cache_key == get_cache_key(town_hall_level, base_type)
        i == CacheIndex(cache, cache_key)
    IN  IF i # 0 /\ time - cache[i].timestamp <= CACHE_DURATION
           /\ Len(cache[i].links) > 0
        THEN [found |-> TRUE, links |-> cache[i].links]
        ELSE [found |-> FALSE, links |-> <<>>]

\* lines 208-217; found = FALSE is the None of line 217.
get_cached_links(cache, town_hall_level, base_type, time) ==
    LET cache_key == get_cache_key(town_hall_level, base_type)
        i == CacheIndex(cache, cache_key)
    IN  IF i # 0 /\ time - cache[i].timestamp < CACHE_DURATION
           /\ Len(cache[i].links) > 0
        THEN [found |-> TRUE, links |-> cache[i].links]
        ELSE [found |-> FALSE, links |-> <<>>]

\* del link_cache[key] for the keys at the positions in drop: the other
\* entries, in cache order.
DeleteAt(cache, drop) ==
    LET keys == {cache[i].key : i \in drop}
        kept(entry) == entry.key \notin keys
    IN  IF drop = {} THEN cache ELSE SelectSeq(cache, kept)

\* The eviction without the sort of line 233: the first entries_to_remove
\* entries of the dict are deleted.
DeleteOldest_unsorted(cache, entries_to_remove) ==
    SubSeq(cache, Min(entries_to_remove, Len(cache)) + 1, Len(cache))

\* lines 233-236: the first entries_to_remove entries of
\* sorted(link_cache.items(), key=timestamp) are deleted.  sorted() is
\* stable, so the entry to go first is the first one of least timestamp.
RECURSIVE DeleteOldest(_, _)
DeleteOldest(cache, entries_to_remove) ==
    IF entries_to_remove <= 0 \/ cache = <<>> THEN cache
    ELSE LET first == CHOOSE i \in 1..Len(cache) :
                 \A j \in 1..Len(cache) :
                     \/ cache[i].timestamp < cache[j].timestamp
                     \/ cache[i].timestamp = cache[j].timestamp /\ i <= j
         IN  DeleteOldest(DeleteAt(cache, {first}), entries_to_remove - 1)

\* lines 220-236.
cleanup_cache(cache, current_time) ==
    LET expired_keys ==
            {i \in 1..Len(cache) :
                current_time - cache[i].timestamp >= CACHE_DURATION}
        live == DeleteAt(cache, expired_keys)
    IN  IF Len(live) > MAX_CACHE_ENTRIES
        THEN DeleteOldest(live, Len(live) - MAX_CACHE_ENTRIES)
        ELSE live

\* lines 239-243.
cache_links(cache, town_hall_level, base_type, links, time) ==
    LET cleaned == cleanup_cache(cache, time)
        cache_key == get_cache_key(town_hall_level, base_type)
        entry == [key |-> cache_key, links |-> links, timestamp |-> time]
        i == CacheIndex(cleaned, cache_key)
    IN  IF i # 0 THEN [cleaned EXCEPT ![i] = entry]
        ELSE Append(cleaned, entry)



(***************************************************************************)
(* Inputs: the answers of the provider, the arguments of the requests and  *)
(* the readings of the clock.                                              *)
(***************************************************************************)
\* Descriptions of videos: no link, one link, two links of TH15 followed
\* by one of TH16, and a text of the link shape with a level the pattern
\* does not admit.
Descriptions ==
    {<<L("TH15", 1)>>,
     <<L("TH15", 1), L("TH15", 2), L("TH16", 1)>>,
     <<L("TH14", 1)>>}
ErrorOutcomes == {"quotaExceeded", "HttpError", "Exception"}
QueryLevels == {"TH15"}
QueryTypes == {1}              \* base_type strings of the requests
VideoCounts == {0, 1}          \* items of a search response (max_videos 5)
MaxLinksArgs == {1, MAX_LINKS_PER_REQUEST}
TimePoints == {0, CACHE_DURATION - 1, CACHE_DURATION}
ChannelLists == {[i \in 1..n |-> i] : n \in 0..MaxChannels}

\* The answers of the provider: to the search call (line 192) an error or
\* a number of videos, to the metadata call (line 135) an error or the
\* descriptions of the videos asked for.
SearchAnswers ==
    [error : ErrorOutcomes, videos : {0}]
    \cup [error : {"none"}, videos : VideoCounts]
MetaAnswers ==
    [error : ErrorOutcomes, items : {<<>>}]
    \cup [error : {"none"},
          items : UNION {[1..n -> Descriptions] : n \in VideoCounts}]

RECURSIVE Flatten(_)
Flatten(ss) == IF ss = <<>> THEN <<>> ELSE Head(ss) \o Flatten(Tail(ss))

\* fetch_video_links, lines 137-149: the links of all items, or [] when
\* the metadata call fails.
fetch_video_links(meta, town_hall_level) ==
    IF meta.error # "none" THEN <<>>
    ELSE Flatten([i \in 1..Len(meta.items) |->
                     extract_links(meta.items[i], town_hall_level)])

\* search_channel_videos, lines 192-200, with line 129 of
\* fetch_video_links: [] when the search fails or finds no video.
search_channel_videos(search, meta, town_hall_level) ==
    IF search.error # "none" \/ search.videos = 0 THEN <<>>
    ELSE fetch_video_links(meta, town_hall_level)

\* How the task of one channel ended, for the record of the request.
Outcome(search, meta) ==
    LET e == IF search.error # "none" THEN search.error
             ELSE IF search.videos = 0 THEN "none" ELSE meta.error
    IN  IF e = "none" THEN "ok"
        ELSE IF e = "quotaExceeded" THEN "quotaExceeded" ELSE "failed"

\* The slice without its bound: the whole list.
Slice_whole(links, max_links) == links

\* links[:max_links] (lines 252, 276) for max_links >= 0.
Slice(links, max_links) ==
    SubSeq(links, 1, Min(max_links, Len(links)))

\* The merge with an assignment for the update of line 274: only the
\* links of the last channel are kept.
found_links_of_last(results) ==
    IF results = <<>> THEN {} ELSE Range(results[Len(results)])

\* lines 273-274: the merge of the channel results into the set.
found_links_of(results) == UNION {Range(results[i]) : i \in 1..Len(results)}

\* The merge into a list for the set of line 254: the results are put
\* one after the other and cut to max_links.
final_links_of_list(results, max_links) ==
    LET all == Flatten(results)
    IN  {SubSeq(all, 1, Min(max_links, Len(all)))}

\* list(found_links)[:max_links] (line 276): a set is listed in an order
\* the program does not decide, then cut to max_links.
final_links_of(results, max_links) ==
    LET found_links == found_links_of(results)
        n == Min(max_links, Cardinality(found_links))
    IN  {s \in [1..n -> found_links] :
            \A i, j \in 1..n : s[i] = s[j] => i = j}

VARIABLES
    API_KEY_QUOTA,        \* usage per key index (line 55)
    current_key_index,    \* line 56
    link_cache,           \* line 34
    preloaded_channels,   \* line 83, fixed after start-up
    now,                  \* time.time()
    req,                  \* the calls of search_preloaded_channels
    calls,                \* number of calls started
    exhausted,            \* history: the keys marked at line 109
    direct                \* the last direct call of a function of the engine

vars == <<API_KEY_QUOTA, current_key_index, link_cache, preloaded_channels,
          now, req, calls, exhausted, direct>>

\* A call of search_preloaded_channels: its position, arguments and locals
\* (youtube, results), its return value, and for the record what its
\* lookup found (seen), how each channel task ended (outcomes), whether
\* the key of its client was marked when get_youtube_client returned it
\* (sel_marked), whether every key was marked before it asked for the
\* client (all_marked) and the keys its provider calls were charged to
\* (charged).
NoEntry == [present |-> FALSE, fresh |-> FALSE, links |-> <<>>]
IdleReq ==
    [pc |-> "idle", level |-> "TH15", type |-> 1, max_links |-> 1,
     youtube |-> NoClient, results |-> <<>>, outcomes |-> <<>>,
     ret |-> <<>>, path |-> "none", seen |-> NoEntry,
     sel_marked |-> FALSE, all_marked |-> FALSE, charged |-> {}]

\* A function called on its own (not by search_preloaded_channels): its
\* name, the provider's answer and the level it was given, the links it
\* returned, and for get_youtube_client the key of the client returned
\* and whether the call ended by an exception.
NoDirect ==
    [fn |-> "none", meta |-> [error |-> "none", items |-> <<>>],
     level |-> "TH15", links |-> <<>>, client |-> NoClient, raised |-> FALSE]

Init ==
    /\ API_KEY_QUOTA = [k \in Keys |-> 0]
    /\ current_key_index = 0
    /\ link_cache = <<>>
    /\ preloaded_channels \in ChannelLists
    /\ now = 0
    /\ req = [r \in Reqs |-> IdleReq]
    /\ calls = 0
    /\ exhausted = {}
    /\ direct = NoDirect

\* What the lookup of line 250 finds under the key of the query.
SeenEntry(level, type) ==
    LET i == CacheIndex(link_cache, get_cache_key(level, type))
    IN  IF i = 0 THEN NoEntry
        ELSE [present |-> TRUE,
              fresh |-> now - link_cache[i].timestamp < CACHE_DURATION,
              links |-> link_cache[i].links]

\* A new call is recorded in the first slot that holds no call in flight.
FreeSlot(r) ==
    /\ req[r].pc # "gather"
    /\ \A r2 \in Reqs : r2 < r => req[r2].pc = "gather"

\* An answer from the cache that also writes the entry again, with a new
\* timestamp.
CacheHit_rewrites(r, level, type, max_links) ==
    LET cached_links == get_cached_links(link_cache, level, type, now)
    IN  /\ FreeSlot(r)
        /\ calls < MaxCalls
        /\ cached_links.found /\ cached_links.links # <<>>
        /\ req' = [req EXCEPT ![r] =
                [IdleReq EXCEPT !.pc = "done", !.level = level, !.type = type,
                    !.max_links = max_links, !.path = "hit",
                    !.seen = SeenEntry(level, type),
                    !.ret = Slice(cached_links.links, max_links)]]
        /\ calls' = calls + 1
        /\ link_cache' = cache_links(link_cache, level, type,
                                     cached_links.links, now)
        /\ UNCHANGED <<API_KEY_QUOTA, current_key_index,
                       preloaded_channels, now, exhausted, direct>>

\* search_preloaded_channels, lines 250-252: answered from the cache.
CacheHit(r, level, type, max_links) ==
    LET cached_links == get_cached_links(link_cache, level, type, now)
    IN  /\ FreeSlot(r)
        /\ calls < MaxCalls
        /\ cached_links.found /\ cached_links.links # <<>>       \* line 251
        /\ req' = [req EXCEPT ![r] =
                [IdleReq EXCEPT !.pc = "done", !.level = level, !.type = type,
                    !.max_links = max_links, !.path = "hit",
                    !.seen = SeenEntry(level, type),
                    !.ret = Slice(cached_links.links, max_links)]]
        /\ calls' = calls + 1
        /\ UNCHANGED <<API_KEY_QUOTA, current_key_index, link_cache,
                       preloaded_channels, now, exhausted, direct>>

\* search_preloaded_channels, lines 250-271: a miss; the client is asked
\* for, and the call returns [] (line 258), ends by the exception of
\* get_youtube_client, or creates the channel tasks and waits for them.
CacheMiss(r, level, type, max_links) ==
    LET cached_links == get_cached_links(link_cache, level, type, now)
    IN  /\ FreeSlot(r)
        /\ calls < MaxCalls
        /\ ~(cached_links.found /\ cached_links.links # <<>>)    \* line 251
        /\ \E o \in get_youtube_client(API_KEY_QUOTA, current_key_index) :
            /\ API_KEY_QUOTA' = o.quota
            /\ current_key_index' = o.index
            /\ exhausted' = exhausted \cup o.marked
            /\ req' = [req EXCEPT ![r] =
                    [IdleReq EXCEPT !.level = level, !.type = type,
                        !.max_links = max_links, !.path = "miss",
                        !.seen = SeenEntry(level, type),
                        !.youtube = o.client,
                        !.sel_marked = o.client \in exhausted \cup o.marked,
                        !.all_marked = (exhausted = Keys),
                        !.pc = IF o.raised THEN "raised"
                               ELSE IF o.client = NoClient THEN "done"
                               ELSE "gather"]]
        /\ calls' = calls + 1
        /\ UNCHANGED <<link_cache, preloaded_channels, now, direct>>

\* process_channel (lines 260-268) for the next channel of call r:
\* search_channel_videos (lines 165-200) and fetch_video_links (125-149).
\* The usage is charged to the key current_key_index points at when the
\* task runs (lines 182, 133).
ChannelTask(r, search, meta) ==
    LET key == current_key_index
        charged1 == [API_KEY_QUOTA EXCEPT ![key] = @ + 100]
        charged2 == [charged1 EXCEPT ![key] = @ + search.videos]
    IN  /\ req[r].pc = "gather"
        /\ Len(req[r].results) < Len(preloaded_channels)
        /\ \/ /\ search.error # "none" \/ search.videos = 0
              /\ meta = [error |-> "none", items |-> <<>>]
              /\ API_KEY_QUOTA' = charged1
           \/ /\ search.error = "none" /\ search.videos > 0
              /\ meta.error # "none" \/ Len(meta.items) = search.videos
              /\ API_KEY_QUOTA' = charged2
        /\ req' = [req EXCEPT
              ![r].results =
                  Append(@, search_channel_videos(search, meta, req[r].level)),
              ![r].outcomes = Append(@, Outcome(search, meta)),
              ![r].charged = @ \cup {key}]
        /\ UNCHANGED <<current_key_index, link_cache, preloaded_channels,
                       now, calls, exhausted, direct>>

\* search_preloaded_channels after the gather, lines 271-280.
Finish(r) ==
    /\ req[r].pc = "gather"
    /\ Len(req[r].results) = Len(preloaded_channels)
    /\ \E final_links \in final_links_of(req[r].results, req[r].max_links) :
        /\ link_cache' = cache_links(link_cache, req[r].level, req[r].type,
                                     final_links, now)
        /\ req' = [req EXCEPT ![r].pc = "done", ![r].ret = final_links]
    /\ UNCHANGED <<API_KEY_QUOTA, current_key_index, preloaded_channels,
                   now, calls, exhausted, direct>>

\* The clock moves on.
Tick ==
    /\ \E t \in TimePoints : t > now /\ now' = t
    /\ UNCHANGED <<API_KEY_QUOTA, current_key_index, link_cache,
                   preloaded_channels, req, calls, exhausted, direct>>

Next ==
    \/ \E r \in OneAtATime, level \in QueryLevels, type \in QueryTypes,
          max_links \in MaxLinksArgs : CacheHit(r, level, type, max_links)
    \/ \E r \in OneAtATime, level \in QueryLevels, type \in QueryTypes,
          max_links \in MaxLinksArgs : CacheMiss(r, level, type, max_links)
    \/ \E r \in OneAtATime, search \in SearchAnswers, meta \in MetaAnswers :
          ChannelTask(r, search, meta)
    \/ \E r \in OneAtATime : Finish(r)
    \/ Tick

Spec == Init /\ [][Next]_vars

\* Two calls in flight: a second call starts while the first one waits at
\* the gather of line 271.  The calls are those of find_bases, which
\* passes max_links = MAX_LINKS_PER_REQUEST (lines 328-330).
CommandLinksArgs == {MAX_LINKS_PER_REQUEST}

NextOverlap ==
    \/ \E r \in Reqs, level \in QueryLevels, type \in QueryTypes,
          max_links \in CommandLinksArgs :
              CacheHit(r, level, type, max_links)
    \/ \E r \in Reqs, level \in QueryLevels, type \in QueryTypes,
          max_links \in CommandLinksArgs :
              CacheMiss(r, level, type, max_links)
    \/ \E r \in Reqs, search \in SearchAnswers, meta \in MetaAnswers :
          ChannelTask(r, search, meta)
    \/ \E r \in Reqs : Finish(r)
    \/ Tick

SpecOverlap == Init /\ [][NextOverlap]_vars


(***************************************************************************)
(* The cache on its own: cache_links called directly, for more queries     *)
(* than the cache has room for.  A new query takes the least base_type not *)
(* in the cache (the strings are opaque), or the query of the entry        *)
(* inserted first is put again, while the cache holds at most             *)
(* MaxRewriteLen entries or when every query is in the cache.              *)
(***************************************************************************)
MaxRewriteLen == 2    \* entries in the cache when its first entry is rewritten

NumCacheTypes == MAX_CACHE_ENTRIES + ExtraTypes
PutTypes ==
    LET unused == {t \in 1..NumCacheTypes :
                       get_cache_key("TH15", t) \notin CacheKeys(link_cache)}
        least == {t \in unused : \A u \in unused : t <= u}
        again == link_cache # <<>>
                     /\ (Len(link_cache) <= MaxRewriteLen \/ unused = {})
    IN  least \cup (IF again THEN {link_cache[1].key[2]} ELSE {})

CachePut(type) ==
    /\ link_cache' = cache_links(link_cache, "TH15", type,
                                 <<L("TH15", 1)>>, now)
    /\ UNCHANGED <<API_KEY_QUOTA, current_key_index, preloaded_channels,
                   now, req, calls, exhausted, direct>>

\* The clock moves on, within the lifetime of the entries.
CacheTick ==
    /\ \E t \in TimePoints : t > now /\ t < CACHE_DURATION /\ now' = t
    /\ UNCHANGED <<API_KEY_QUOTA, current_key_index, link_cache,
                   preloaded_channels, req, calls, exhausted, direct>>

NextCache ==
    \/ \E type \in PutTypes : CachePut(type)
    \/ CacheTick

InitCache == Init /\ preloaded_channels = <<>>
SpecCache == InitCache /\ [][NextCache]_vars

(***************************************************************************)
(* fetch_video_links on its own, for descriptions of up to MaxTokens       *)
(* link-shaped texts.                                                      *)
(***************************************************************************)
MaxTokens == 3        \* link-shaped texts in one description

Tokens ==
    {L("TH15", 1), L("TH15", 2), L("TH15", 3), L("TH16", 1), L("TH14", 1)}
Texts == UNION {[1..n -> Tokens] : n \in 0..MaxTokens}
TextAnswers ==
    [error : ErrorOutcomes, items : {<<>>}]
    \cup [error : {"none"},
          items : UNION {[1..n -> Texts] : n \in VideoCounts}]

\* fetch_video_links (lines 125-149) called with a client, video_ids ids
\* and a level; meta is the answer to the metadata call.
FetchVideoLinks(video_ids, meta, level) ==
    /\ calls < MaxCalls
    /\ meta.error # "none" \/ Len(meta.items) = video_ids
    /\ video_ids = 0 => meta = [error |-> "none", items |-> <<>>]
    /\ API_KEY_QUOTA' =
          IF video_ids = 0 THEN API_KEY_QUOTA                     \* line 129
          ELSE [API_KEY_QUOTA EXCEPT ![current_key_index] = @ + video_ids]
    /\ direct' = [NoDirect EXCEPT !.fn = "fetch_video_links",
                      !.meta = meta, !.level = level,
                      !.links = IF video_ids = 0 THEN <<>>
                                ELSE fetch_video_links(meta, level)]
    /\ calls' = calls + 1
    /\ UNCHANGED <<current_key_index, link_cache, preloaded_channels, now,
                   req, exhausted>>

NextExtract ==
    \E video_ids \in VideoCounts, meta \in TextAnswers,
       level \in {"TH15", "TH16"} : FetchVideoLinks(video_ids, meta, level)

SpecExtract == InitCache /\ [][NextExtract]_vars

(***************************************************************************)
(* The rotator on its own: get_youtube_client called again and again, and  *)
(* between the calls the search calls of the tasks (each charges 100 at    *)
(* line 182) as long as the usage stays within MaxUsage.                   *)
(***************************************************************************)
MaxUsage == QUOTA_LIMIT + 100

GetYoutubeClient ==
    \E o \in get_youtube_client(API_KEY_QUOTA, current_key_index) :
        /\ API_KEY_QUOTA' = o.quota
        /\ current_key_index' = o.index
        /\ exhausted' = exhausted \cup o.marked
        /\ direct' = [NoDirect EXCEPT !.fn = "get_youtube_client",
                          !.client = o.client, !.raised = o.raised]
        /\ UNCHANGED <<link_cache, preloaded_channels, now, req, calls>>

\* line 182, in a task of a call that holds a client.
SearchCharge ==
    /\ direct.client # NoClient
    /\ API_KEY_QUOTA[current_key_index] + 100 <= MaxUsage
    /\ API_KEY_QUOTA' = [API_KEY_QUOTA EXCEPT ![current_key_index] = @ + 100]
    /\ direct' = [direct EXCEPT !.fn = "search_channel_videos"]
    /\ UNCHANGED <<current_key_index, link_cache, preloaded_channels, now,
                   req, calls, exhausted>>

NextRotator == GetYoutubeClient \/ SearchCharge

SpecRotator == InitCache /\ [][NextRotator]_vars

(***************************************************************************)
(* Claims.                                                                 *)
(***************************************************************************)
Done(r) == req[r].pc = "done"
GotClient(r) == req[r].youtube # NoClient
AllChannels(r) == Len(req[r].results) = Len(preloaded_channels)

\* C1: get_youtube_client never returns a client built on a key that has
\* been marked exhausted (set to QUOTA_LIMIT at line 109).
C1_NeverSelectsExhausted ==
    \A r \in Reqs : GotClient(r) => ~req[r].sel_marked

\* C2: once every key has been marked exhausted, every call of
\* get_youtube_client returns None.
C2_AllExhaustedGivesNone ==
    \A r \in Reqs :
        req[r].all_marked => req[r].pc = "done" /\ ~GotClient(r)

\* C3: when a channel task of a call fails with quotaExceeded, the key of
\* the client of that call is marked exhausted (and the channels that
\* remain are searched with another key).
C3_QuotaFailureMarksKey ==
    \A r \in Reqs :
        "quotaExceeded" \in Range(req[r].outcomes)
            => req[r].youtube \in exhausted

\* C8: search_preloaded_channels never ends by raising.
C8_NeverRaises ==
    \A r \in Reqs : req[r].pc # "raised"

\* C4: after any sequence of cache_links the cache holds at most
\* MAX_CACHE_ENTRIES entries.
C4_CacheWithinCapacity ==
    Len(link_cache) <= MAX_CACHE_ENTRIES

\* C5 as stated: no entry of link_cache holds an empty link list.
C5_NoEmptyEntry ==
    \A i \in 1..Len(link_cache) : link_cache[i].links # <<>>

\* C5 as amended: an entry may hold an empty link list, but the empty list
\* is never served: get_cached_links answers None for it, and a call that
\* finds it under its key takes the miss path.
C5_EmptyEntryNeverServed ==
    /\ \A level \in QueryLevels, type \in QueryTypes :
          LET cached_links == get_cached_links(link_cache, level, type, now)
          IN  cached_links.found => cached_links.links # <<>>
    /\ \A r \in Reqs :
          req[r].seen.present /\ req[r].seen.links = <<>>
              => req[r].path = "miss"

\* A call has looked up an entry that is not expired and holds the empty
\* list, has fetched again and has returned links.
C5_Witness ==
    \E r \in Reqs :
        /\ Done(r) /\ req[r].path = "miss"
        /\ req[r].seen.present /\ req[r].seen.fresh
        /\ req[r].seen.links = <<>>
        /\ req[r].ret # <<>>

\* C6 as stated: a call that finds, under its key, an entry an earlier
\* call cached and returned less than CACHE_DURATION ago returns only
\* links of that entry.
C6_SecondCallFromCachedSet ==
    \A r \in Reqs :
        Done(r) /\ req[r].seen.present /\ req[r].seen.fresh
            => Range(req[r].ret) \subseteq Range(req[r].seen.links)

\* C6 as amended: the same, when the list the earlier call cached and
\* returned is not empty.
C6_SecondCallFromNonEmptyCachedSet ==
    \A r \in Reqs :
        /\ Done(r) /\ req[r].seen.present /\ req[r].seen.fresh
        /\ req[r].seen.links # <<>>
        => Range(req[r].ret) \subseteq Range(req[r].seen.links)

\* A call has been answered from an entry of two links, cut to one.
C6_Witness ==
    \E r \in Reqs :
        /\ Done(r) /\ req[r].path = "hit"
        /\ Len(req[r].seen.links) = 2
        /\ req[r].ret = <<req[r].seen.links[1]>>

\* C7: get_cached_links never returns the links of an entry of age
\* CACHE_DURATION or more, and a call that finds only such an entry under
\* its key takes the miss path and, once it has a client, searches every
\* channel before it returns.
C7_StaleNeverServed ==
    /\ \A level \in QueryLevels, type \in QueryTypes :
          LET i == CacheIndex(link_cache, get_cache_key(level, type))
          IN  get_cached_links(link_cache, level, type, now).found
                  => i # 0 /\ now - link_cache[i].timestamp < CACHE_DURATION
    /\ \A r \in Reqs :
          req[r].seen.present /\ ~req[r].seen.fresh
              => /\ req[r].path = "miss"
                 /\ Done(r) /\ GotClient(r) => AllChannels(r)

\* A call has found an expired entry with links under its key, has
\* searched the channels and has returned links.
C7_Witness ==
    \E r \in Reqs :
        /\ Done(r) /\ req[r].seen.present /\ ~req[r].seen.fresh
        /\ req[r].seen.links # <<>>
        /\ GotClient(r) /\ AllChannels(r) /\ Len(preloaded_channels) > 0
        /\ req[r].ret # <<>>

\* C9: a channel whose search or metadata call fails with an error other
\* than quotaExceeded contributes no link, and the links of all other
\* channels are merged into the result: the result is drawn from them and
\* is cut only by max_links.
C9_FailedChannelIsolated ==
    \A r \in Reqs :
        Done(r) /\ req[r].path = "miss" /\ GotClient(r)
        => LET channels == 1..Len(req[r].results)
               others == UNION {Range(req[r].results[i]) :
                           i \in {j \in channels :
                                     req[r].outcomes[j] # "failed"}}
           IN  /\ \A i \in channels :
                     req[r].outcomes[i] = "failed"
                         => req[r].results[i] = <<>>
               /\ Range(req[r].ret) \subseteq others
               /\ Len(req[r].ret) = Min(req[r].max_links, Cardinality(others))

\* The first channel of a pass has given a link, the second has failed,
\* and the call has returned the link.
C9_Witness ==
    \E r \in Reqs :
        /\ Done(r) /\ Len(req[r].results) = 2
        /\ req[r].outcomes = <<"ok", "failed">>
        /\ req[r].results[1] # <<>>
        /\ Range(req[r].ret) = Range(req[r].results[1])

\* C10: the list search_preloaded_channels returns holds no link twice.
C10_NoRepeatedLink ==
    \A r \in Reqs :
        Done(r) => \A i, j \in 1..Len(req[r].ret) :
                       req[r].ret[i] = req[r].ret[j] => i = j

\* Two channels of a pass have given the same link, and the call has
\* returned two links.
C10_Witness ==
    \E r \in Reqs :
        /\ Done(r) /\ req[r].path = "miss" /\ Len(req[r].results) = 2
        /\ Range(req[r].results[1]) \cap Range(req[r].results[2]) # {}
        /\ Len(req[r].ret) = 2

\* C11: the list search_preloaded_channels returns has at most max_links
\* elements, from the cache as from a fetch.
C11_AtMostMaxLinks ==
    \A r \in Reqs : Done(r) => Len(req[r].ret) <= req[r].max_links

\* A call with max_links = 1 has been answered from an entry that a call
\* with a larger max_links wrote with more than one link.
C11_Witness ==
    \E r \in Reqs :
        /\ Done(r) /\ req[r].path = "hit" /\ req[r].max_links = 1
        /\ Len(req[r].seen.links) > req[r].max_links
        /\ Len(req[r].ret) = 1

\* C12: every link extract_links returns for a level matches the link
\* pattern and carries that level; a text of two links of the level and
\* one link of another level gives exactly the two; and every link
\* search_preloaded_channels collects or returns for a level matches the
\* pattern and carries that level.
C12_LinksOfRequestedLevel ==
    /\ \A description \in Descriptions, level \in BASE_LEVELS :
          \A link \in Range(extract_links(description, level)) :
              base_link_pattern(link) /\ link.level = level
    /\ extract_links(<<L("TH15", 1), L("TH15", 2), L("TH16", 1)>>, "TH15")
          = <<L("TH15", 1), L("TH15", 2)>>
    /\ \A r \in Reqs :
          /\ \A i \in 1..Len(req[r].results) :
                \A link \in Range(req[r].results[i]) :
                    base_link_pattern(link) /\ link.level = req[r].level
          /\ Done(r) =>
                \A link \in Range(req[r].ret) :
                    base_link_pattern(link) /\ link.level = req[r].level

\* A channel of a call has given the two links of the level out of a
\* description that also holds a link of another level, and the call has
\* returned the two.
C12_Witness ==
    \E r \in Reqs :
        /\ Done(r) /\ req[r].path = "miss"
        /\ \E i \in 1..Len(req[r].results) :
              req[r].results[i] = <<L("TH15", 1), L("TH15", 2)>>
        /\ Range(req[r].ret) = {L("TH15", 1), L("TH15", 2)}

\* C13: a description contributes at most two links to the list
\* fetch_video_links returns.
C13_AtMostTwoPerDescription ==
    direct.fn = "fetch_video_links"
        => Len(direct.links) <= 2 * Len(direct.meta.items)

\* C14: with an empty channel list every call of search_preloaded_channels
\* returns [], constructs no client, issues no search or metadata call
\* and leaves the usage table as it was.
C14_EmptyListNoProviderCall ==
    preloaded_channels = <<>> =>
        /\ \A r \in Reqs :
              /\ req[r].pc # "raised"
              /\ Done(r) => req[r].ret = <<>>
              /\ ~GotClient(r)
              /\ req[r].results = <<>>
        /\ API_KEY_QUOTA = [k \in Keys |-> 0]

\* C15: the search and metadata calls of a call are charged to the key
\* its client was built on, also when another call has run
\* get_youtube_client in between.
C15_ChargedToOwnKey ==
    \A r \in Reqs : req[r].charged \subseteq {req[r].youtube}

\* C16: the key get_youtube_client selects for the client it returns is
\* one that is not marked exhausted, of least usage among the keys not
\* marked, and the first of them in API_KEYS among those of that usage.
C16_SelectsLeastUsedAvailable ==
    direct.fn = "get_youtube_client" /\ direct.client # NoClient =>
        LET Available == Keys \ exhausted
            i == direct.client
        IN  /\ i \in Available
            /\ \A j \in Available :
                  \/ API_KEY_QUOTA[i] < API_KEY_QUOTA[j]
                  \/ API_KEY_QUOTA[i] = API_KEY_QUOTA[j] /\ i <= j

\* C17: no channel of a call is searched after the channels before it
\* have given max_links distinct links.
C17_StopsAtMaxLinks ==
    \A r \in Reqs :
        \A i \in 1..Len(req[r].results) :
            Cardinality(UNION {Range(req[r].results[j]) : j \in 1..(i - 1)})
                < req[r].max_links

\* C18: what cleanup_cache removes from a cache over capacity is never
\* newer than what it keeps: no removed entry has a timestamp later than
\* that of a retained entry.
C18_EvictsOldestFirst ==
    LET after == cleanup_cache(link_cache, now)
        removed == {e \in Range(link_cache) : e \notin Range(after)}
    IN  \A e \in removed, kept \in Range(after) :
            e.timestamp <= kept.timestamp

\* The cache is back at its capacity after the put of the last query: the
\* entry inserted first, written again at a later time, is still there,
\* and the entry inserted second, the oldest one, has been evicted.
C18_Witness ==
    /\ Len(link_cache) = MAX_CACHE_ENTRIES
    /\ link_cache[1].key = get_cache_key("TH15", 1)
    /\ link_cache[1].timestamp > 0
    /\ get_cache_key("TH15", 2) \notin CacheKeys(link_cache)
    /\ get_cache_key("TH15", NumCacheTypes) \in CacheKeys(link_cache)

\* C19: get_youtube_client returns None only when every key is marked
\* exhausted.
C19_NoneOnlyWhenAllExhausted ==
    direct.fn = "get_youtube_client" /\ direct.client = NoClient
        /\ ~direct.raised
        => exhausted = Keys

\* C20: a call of search_preloaded_channels that is answered from the
\* cache changes no usage counter, not current_key_index, no mark of a
\* key and no entry of the cache (none added, removed or re-timestamped).
C20_CacheAnswerChangesNothing ==
    [][(/\ calls' = calls + 1
        /\ \E r \in Reqs : FreeSlot(r) /\ req'[r].path = "hit")
       => UNCHANGED <<API_KEY_QUOTA, current_key_index, exhausted,
                      link_cache, preloaded_channels, now>>]_vars

\* A call has been answered from an entry written at an earlier time,
\* with usage on record.
C20_Witness ==
    \E r \in Reqs :
        /\ Done(r) /\ req[r].path = "hit" /\ req[r].ret # <<>>
        /\ \E k \in Keys : API_KEY_QUOTA[k] > 0
        /\ \E i \in 1..Len(link_cache) : link_cache[i].timestamp < now

=============================================================================
